---- MODULE Spec2Model ----
(***************************************************************************)
(* Countdown Numbers game: the Equation chain (src/src/equations.rs), the  *)
(* exhaustive BruteForceSolver (src/src/solvers/bruteforce.rs) and the     *)
(* depth-bounded MinimaxSolver (src/src/solvers/minimax.rs).               *)
(*                                                                         *)
(* An Equation is a singly-owned chain: it is modelled as the non-empty    *)
(* sequence of its nodes, head first; every node but the last carries an   *)
(* OpType and the last one carries "Terminate".  Option<Equation> is the   *)
(* chain or the empty sequence (None).  A HashMap<i32, Equation> is a      *)
(* function whose domain is the set of keys.  Vec indices are 1-based.     *)
(* All values within the bounds below stay far inside i32, so the i32      *)
(* arithmetic of the source is plain integer arithmetic here.              *)
(***************************************************************************)
EXTENDS Integers, Sequences, FiniteSets, TLC

VARIABLES kind, max_depth, target, numbers, pc, result, permutation_count,
          nodes_explored, utility_found, value, equation, eq_value,
          self_target, calls, puzzle, puzzle_valid

vars == <<kind, max_depth, target, numbers, pc, result, permutation_count,
          nodes_explored, utility_found, value, equation, eq_value,
          self_target, calls, puzzle, puzzle_valid>>

solverVars == <<kind, max_depth, target, numbers, pc, result,
                permutation_count, nodes_explored, utility_found, value,
                self_target, calls>>

eqVars == <<equation, eq_value>>

genVars == <<puzzle, puzzle_valid>>

(***************************************************************************)
(* Bounds of the model.                                                    *)
(***************************************************************************)
MaxLen == 3
MaxNum == 3
MaxTarget == 8
MaxDepth == 1
MaxChain == 3
MaxCalls == 2
MaxLargeCount == 5
MaxGenNumbers == 5
MaxSmallCount == 2

(***************************************************************************)
(* Program constants.                                                      *)
(***************************************************************************)
EXACT_MATCH_UTILITY == 1000
DefaultDepth == 6
I32Min == (-2147483647) - 1

\* Targets near the inputs, and two far ones on either side of the
\* acceptance threshold of the heuristic solver.
FarTargets == {100, 101}
Targets == (0..MaxTarget) \cup FarTargets
Numbers == 0..MaxNum
Depths == (0..MaxDepth) \cup {DefaultDepth}
EqNumbers == {-3, 0, 2, 25, 50, 100}

RECURSIVE SeqsUpTo(_, _)
SeqsUpTo(S, n) ==
    IF n = 0 THEN {<<>>}
    ELSE LET shorter == SeqsUpTo(S, n - 1)
         IN  shorter \cup {Append(s, x) : s \in shorter, x \in S}

Inputs == SeqsUpTo(Numbers, MaxLen)

(***************************************************************************)
(* Rust integer helpers: abs, truncating % and /.                          *)
(***************************************************************************)
Abs(x) == IF x < 0 THEN -x ELSE x

Rem(a, b) == IF a < 0 THEN -(Abs(a) % Abs(b)) ELSE a % Abs(b)

Div(a, b) ==
    IF (a < 0) = (b < 0) THEN Abs(a) \div Abs(b) ELSE -(Abs(a) \div Abs(b))

Max(a, b) == IF a >= b THEN a ELSE b

(***************************************************************************)
(* equations.rs                                                            *)
(***************************************************************************)
OpType == {"Add", "Subtract", "Multiply", "Divide"}

None == <<>>

Ok(v) == [ok |-> TRUE, val |-> v, err |-> "none"]

Err(e) == [ok |-> FALSE, val |-> 0, err |-> e]

Equation_terminate(number) == <<[number |-> number, op |-> "Terminate"]>>

Equation_new(number, op_type, next) ==
    <<[number |-> number, op |-> op_type]>> \o next

\* A variant of ApplyOp with the operands of the subtraction exchanged.
ApplyOpSwapped(op_type, number, next_result) ==
    CASE op_type = "Add" -> Ok(number + next_result)
      [] op_type = "Subtract" -> Ok(next_result - number)
      [] op_type = "Multiply" -> Ok(number * next_result)
      [] op_type = "Divide" ->
            IF next_result = 0 THEN Err("DivisionByZero")
            ELSE IF Rem(number, next_result) # 0 THEN Err("NonIntegerResult")
            ELSE Ok(Div(number, next_result))

\* A variant of ApplyOp whose division truncates.
ApplyOpTruncating(op_type, number, next_result) ==
    CASE op_type = "Add" -> Ok(number + next_result)
      [] op_type = "Subtract" -> Ok(number - next_result)
      [] op_type = "Multiply" -> Ok(number * next_result)
      [] op_type = "Divide" ->
            IF next_result = 0 THEN Err("DivisionByZero")
            ELSE Ok(Div(number, next_result))

\* The match on op_type in Equation::solve, once next has evaluated.
ApplyOp(op_type, number, next_result) ==
    CASE op_type = "Add" -> Ok(number + next_result)
      [] op_type = "Subtract" -> Ok(number - next_result)
      [] op_type = "Multiply" -> Ok(number * next_result)
      [] op_type = "Divide" ->
            IF next_result = 0 THEN Err("DivisionByZero")
            ELSE IF Rem(number, next_result) # 0 THEN Err("NonIntegerResult")
            ELSE Ok(Div(number, next_result))

\* A variant of SolveNode that reads a failed next as 0 (unwrap_or(0)).
SolveNodeErrorAsZero(op_type, number, next_result) ==
    ApplyOp(op_type, number, next_result.val)

\* An Op node, given what next.solve() returned: the ? operator hands an
\* error of next on unchanged, and a value goes to the match on op_type.
SolveNode(op_type, number, next_result) ==
    IF ~next_result.ok THEN next_result
    ELSE ApplyOp(op_type, number, next_result.val)

RECURSIVE Equation_solve(_)
Equation_solve(eq) ==
    IF eq[1].op = "Terminate" THEN Ok(eq[1].number)
    ELSE SolveNode(eq[1].op, eq[1].number, Equation_solve(Tail(eq)))

(***************************************************************************)
(* HashMap<i32, Equation>                                                  *)
(***************************************************************************)
Range(s) == {s[i] : i \in 1..Len(s)}

MapInsert(m, k, v) == [x \in (DOMAIN m) \cup {k} |-> IF x = k THEN v ELSE m[x]]

MapRemove(m, k) == [x \in (DOMAIN m) \ {k} |-> m[x]]

MapGet(m, k) == IF k \in DOMAIN m THEN m[k] ELSE None

\* for &num in numbers { equations.insert(num, Equation::terminate(num)) }
InitialEquations(nums) == [x \in Range(nums) |-> Equation_terminate(x)]

(***************************************************************************)
(* Shared by both solvers: the loops "for i in 0..len, for j in 0..len,    *)
(* if i == j continue", and the rule that offers a division.               *)
(***************************************************************************)
RECURSIVE FlattenRange(_, _, _)
\* ss[lo] \o ... \o ss[hi]; the range is halved to keep the nesting shallow.
FlattenRange(ss, lo, hi) ==
    IF lo > hi THEN << >>
    ELSE IF lo = hi THEN ss[lo]
    ELSE LET mid == (lo + hi) \div 2
         IN  FlattenRange(ss, lo, mid) \o FlattenRange(ss, mid + 1, hi)

Flatten(ss) == FlattenRange(ss, 1, Len(ss))

\* A variant of OrderedPairs that visits each unordered pair once (i < j).
OrderedPairsUpper(n) ==
    Flatten([i \in 1..n |-> [d \in 1..(n - i) |-> <<i, i + d>>]])

\* The (i, j) of the two nested loops, in the order they are visited.
OrderedPairs(n) ==
    [k \in 1..(n * (n - 1)) |->
        LET i == ((k - 1) \div (n - 1)) + 1
            jj == ((k - 1) % (n - 1)) + 1
        IN  <<i, IF jj >= i THEN jj + 1 ELSE jj>>]

\* A variant of DivisionValid that only looks at the divisor.
DivisionValidNonZero(a, b) == b # 0

\* if b != 0 && a % b == 0
DivisionValid(a, b) == b # 0 /\ Rem(a, b) = 0

RemoveAt(s, i) == SubSeq(s, 1, i - 1) \o SubSeq(s, i + 1, Len(s))

(***************************************************************************)
(* solvers/bruteforce.rs                                                   *)
(***************************************************************************)
\* A variant of all_ops that tries the multiplication first.
all_ops_multiply_first(a, b) ==
    << [op_type |-> "Multiply", result |-> a * b],
       [op_type |-> "Add", result |-> a + b],
       [op_type |-> "Subtract", result |-> a - b] >>
    \o (IF DivisionValid(a, b)
        THEN << [op_type |-> "Divide", result |-> Div(a, b)] >>
        ELSE << >>)

\* operations_to_try, plus the division when it is valid, for one pair.
all_ops(a, b) ==
    << [op_type |-> "Add", result |-> a + b],
       [op_type |-> "Subtract", result |-> a - b],
       [op_type |-> "Multiply", result |-> a * b] >>
    \o (IF DivisionValid(a, b)
        THEN << [op_type |-> "Divide", result |-> Div(a, b)] >>
        ELSE << >>)

\* Every (i, j, op_type, result) the three nested loops visit, in order.
Candidates(nums) ==
    LET pairs == OrderedPairs(Len(nums))
    IN  Flatten([p \in 1..Len(pairs) |->
            LET i == pairs[p][1]
                j == pairs[p][2]
                ops == all_ops(nums[i], nums[j])
            IN  [o \in 1..Len(ops) |->
                    [i |-> i, j |-> j, op_type |-> ops[o].op_type,
                     result |-> ops[o].result]]])

\* A variant of new_numbers that removes position i and then position j of
\* the shortened list, without allowing for the shift.
new_numbers_shifted(nums, i, j, res) ==
    LET rest == RemoveAt(nums, i)
    IN  Append(RemoveAt(rest, IF j > Len(rest) THEN Len(rest) ELSE j), res)

\* new_numbers: the list without positions i and j, the result appended.
new_numbers(nums, i, j, res) ==
    LET hi == IF i > j THEN i ELSE j
        lo == IF i > j THEN j ELSE i
    IN  Append(RemoveAt(RemoveAt(nums, hi), lo), res)

\* Equation::new(eq_a.number, operation) with operation = op_type(eq_b).
combined_equation(eq_a, op_type, eq_b) ==
    Equation_new(eq_a[1].number, op_type, eq_b)

\* A variant of BaseCase that returns the last equation unchecked.
BaseCaseUnchecked(tgt, nums, equations) == MapGet(equations, nums[1])

\* Base case: single number.
BaseCase(tgt, nums, equations) ==
    IF nums[1] = tgt
    THEN LET eq == MapGet(equations, nums[1])
         IN  IF eq = None THEN None
             ELSE LET r == Equation_solve(eq)
                  IN  IF r.ok /\ r.val = tgt THEN eq ELSE None
    ELSE None

\* A variant of CountInvocation that leaves the counter alone.
CountInvocationNever(below) == below

\* self.permutation_count += 1, on top of what the calls below add.
CountInvocation(below) == below + 1

RECURSIVE try_all_combinations_with_equations(_, _, _)
RECURSIVE TryRange(_, _, _, _, _, _)

\* One invocation: [solution, count], count the invocations made by it and
\* below it (self.permutation_count += 1 in each).
try_all_combinations_with_equations(tgt, nums, equations) ==
    IF Len(nums) = 1
    THEN [solution |-> BaseCase(tgt, nums, equations),
          count |-> CountInvocation(0)]
    ELSE LET cands == Candidates(nums)
             r == TryRange(tgt, nums, equations, cands, 1, Len(cands))
         IN  [solution |-> r.solution, count |-> CountInvocation(r.count)]

\* The loop body for the candidates lo..hi, in order; it returns at the
\* first solution.  The range is halved to keep the nesting shallow: the
\* first half runs before the second, and the second only when the first
\* found nothing.
TryRange(tgt, nums, equations, cands, lo, hi) ==
    IF lo > hi THEN [solution |-> None, count |-> 0]
    ELSE IF lo < hi
    THEN LET mid == (lo + hi) \div 2
             left == TryRange(tgt, nums, equations, cands, lo, mid)
         IN  IF left.solution # None THEN left
             ELSE LET right == TryRange(tgt, nums, equations, cands,
                                        mid + 1, hi)
                  IN  [solution |-> right.solution,
                       count |-> left.count + right.count]
    ELSE
      LET c == cands[lo]
          a == nums[c.i]
          b == nums[c.j]
          eq_a == IF a \in DOMAIN equations THEN equations[a]
                  ELSE Equation_terminate(a)
          eq_b == IF b \in DOMAIN equations THEN equations[b]
                  ELSE Equation_terminate(b)
          combined == combined_equation(eq_a, c.op_type, eq_b)
          eq_result == Equation_solve(combined)
      IN  IF ~(eq_result.ok /\ eq_result.val = c.result)
          THEN [solution |-> None, count |-> 0]
          ELSE try_all_combinations_with_equations(
                   tgt, new_numbers(nums, c.i, c.j, c.result),
                   MapInsert(MapRemove(MapRemove(equations, a), b),
                             c.result, combined))

\* A variant of ResetCounter that keeps the count of the earlier calls.
ResetCounterKeep(old) == old

\* self.permutation_count = 0, and self.nodes_explored = 0 in minimax.rs.
ResetCounter(old) == 0

\* BruteForceSolver::new()
BruteForceSolver_new == [permutation_count |-> 0]

\* solve and solve_recursive on the instance self: [solution, count], count
\* the permutation_count the call leaves in self.
BruteForceSolver_solve_self(self, tgt, nums) ==
    LET r == try_all_combinations_with_equations(tgt, nums,
                                                 InitialEquations(nums))
    IN  [solution |-> r.solution,
         count |-> ResetCounter(self.permutation_count) + r.count]

\* BruteForceSolver::new().solve(tgt, nums)
BruteForceSolver_solve(tgt, nums) ==
    BruteForceSolver_solve_self(BruteForceSolver_new, tgt, nums)

(***************************************************************************)
(* solvers/minimax.rs.  A GameState is [numbers, equations]; an Action is  *)
(* [a, b, op_type].  The solver's target field is passed as tgt.           *)
(***************************************************************************)
is_terminal(tgt, state) ==
    \/ Len(state.numbers) <= 1
    \/ \E k \in 1..Len(state.numbers) :
          LET eq == MapGet(state.equations, state.numbers[k])
          IN  /\ eq # None
              /\ Equation_solve(eq).ok
              /\ Equation_solve(eq).val = tgt

RECURSIVE UtilityLoop(_, _, _, _)
\* The loop of utility from position k on, with best_utility so far.
UtilityLoop(tgt, state, k, best_utility) ==
    IF k > Len(state.numbers) THEN best_utility
    ELSE LET eq == MapGet(state.equations, state.numbers[k])
             r == Equation_solve(eq)
         IN  IF eq # None /\ r.ok
             THEN IF r.val = tgt THEN EXACT_MATCH_UTILITY
                  ELSE UtilityLoop(tgt, state, k + 1,
                                   Max(best_utility, -Abs(tgt - r.val)))
             ELSE UtilityLoop(tgt, state, k + 1, best_utility)

\* let mut best_utility = i32::MIN / 2
utility(tgt, state) == UtilityLoop(tgt, state, 1, I32Min \div 2)

\* A variant of get_actions that visits each unordered pair once (i < j).
get_actions_upper(state) ==
    LET nums == state.numbers
        pairs == OrderedPairsUpper(Len(nums))
    IN  Flatten([p \in 1..Len(pairs) |->
            LET a == nums[pairs[p][1]]
                b == nums[pairs[p][2]]
            IN  << [a |-> a, b |-> b, op_type |-> "Add"],
                   [a |-> a, b |-> b, op_type |-> "Subtract"],
                   [a |-> a, b |-> b, op_type |-> "Multiply"] >>
                \o (IF DivisionValid(a, b)
                    THEN << [a |-> a, b |-> b, op_type |-> "Divide"] >>
                    ELSE << >>)])

get_actions(state) ==
    LET nums == state.numbers
        pairs == OrderedPairs(Len(nums))
    IN  IF Len(nums) < 2 THEN << >>
        ELSE Flatten([p \in 1..Len(pairs) |->
            LET a == nums[pairs[p][1]]
                b == nums[pairs[p][2]]
            IN  << [a |-> a, b |-> b, op_type |-> "Add"],
                   [a |-> a, b |-> b, op_type |-> "Subtract"],
                   [a |-> a, b |-> b, op_type |-> "Multiply"] >>
                \o (IF DivisionValid(a, b)
                    THEN << [a |-> a, b |-> b, op_type |-> "Divide"] >>
                    ELSE << >>)])

\* The match on action.op_type that computes result.
ActionResult(action) ==
    CASE action.op_type = "Add" -> action.a + action.b
      [] action.op_type = "Subtract" -> action.a - action.b
      [] action.op_type = "Multiply" -> action.a * action.b
      [] action.op_type = "Divide" -> Div(action.a, action.b)

\* A variant of RemoveUsed without the used flags: every a and every b go.
RemoveUsedEvery(nums, k, a, b, used_a, used_b) ==
    SelectSeq(SubSeq(nums, k, Len(nums)), LAMBDA x : x # a /\ x # b)

RECURSIVE RemoveUsed(_, _, _, _, _, _)
\* The loop that copies state.numbers without the first a and the first b.
RemoveUsed(nums, k, a, b, used_a, used_b) ==
    IF k > Len(nums) THEN << >>
    ELSE IF nums[k] = a /\ ~used_a
         THEN RemoveUsed(nums, k + 1, a, b, TRUE, used_b)
    ELSE IF nums[k] = b /\ ~used_b
         THEN RemoveUsed(nums, k + 1, a, b, used_a, TRUE)
    ELSE <<nums[k]>> \o RemoveUsed(nums, k + 1, a, b, used_a, used_b)

\* The chain built for the result: a op eq_b when eq_a is a terminal, and
\* otherwise eq_a's head and operator, then eq_a's second number with the
\* action's operator, then eq_b.
mm_combined_equation(eq_a, op_type, eq_b) ==
    IF eq_a[1].op = "Terminate"
    THEN Equation_new(eq_a[1].number, op_type, eq_b)
    ELSE Equation_new(eq_a[1].number, eq_a[1].op,
                      Equation_new(eq_a[2].number, op_type, eq_b))

apply_action(state, action) ==
    LET res == ActionResult(action)
        new_nums == Append(RemoveUsed(state.numbers, 1, action.a, action.b,
                                      FALSE, FALSE), res)
        eq_a == IF action.a \in DOMAIN state.equations
                THEN state.equations[action.a]
                ELSE Equation_terminate(action.a)
        eq_b == IF action.b \in DOMAIN state.equations
                THEN state.equations[action.b]
                ELSE Equation_terminate(action.b)
    IN  [numbers |-> new_nums,
         equations |->
            MapInsert(MapRemove(MapRemove(state.equations, action.a),
                                action.b),
                      res, mm_combined_equation(eq_a, action.op_type, eq_b))]

\* best_equation at a terminal node.
LeafEquation(state) ==
    IF Len(state.numbers) = 1
    THEN MapGet(state.equations, state.numbers[1])
    ELSE None

\* A variant of Better that also takes a child of equal utility.
BetterOrEqual(eval, max_eval) == eval >= max_eval

\* if eval > max_eval
Better(eval, max_eval) == eval > max_eval

\* A variant of LoopBreaks that leaves the loop once max_eval is an exact
\* match.
LoopBreaksOnExactMatch(max_eval) == max_eval = EXACT_MATCH_UTILITY

\* The loop over the actions has no break: whatever max_eval has become,
\* the next action is applied and searched.
LoopBreaks(max_eval) == FALSE

RECURSIVE minimax(_, _, _)
RECURSIVE MaxRange(_, _, _, _, _, _, _, _)

\* One node: [utility, equation, nodes], nodes the invocations made by it
\* and below it (self.nodes_explored += 1 in each).
minimax(tgt, state, depth) ==
    IF is_terminal(tgt, state) \/ depth = 0
    THEN [utility |-> utility(tgt, state),
          equation |-> LeafEquation(state), nodes |-> 1]
    ELSE LET actions == get_actions(state)
             r == MaxRange(tgt, state, depth, actions, 1, Len(actions),
                           I32Min, None)
         IN  [utility |-> r.utility, equation |-> r.equation,
              nodes |-> r.nodes + 1]

\* The loop over the actions lo..hi, in order, entered with max_eval and
\* best_equation; every action is applied and searched.  The range is
\* halved to keep the nesting shallow: the second half starts from what the
\* first half leaves.
MaxRange(tgt, state, depth, actions, lo, hi, max_eval, best_equation) ==
    IF lo > hi
    THEN [utility |-> max_eval, equation |-> best_equation, nodes |-> 0]
    ELSE IF lo < hi
    THEN LET mid == (lo + hi) \div 2
             left == MaxRange(tgt, state, depth, actions, lo, mid,
                              max_eval, best_equation)
             right == MaxRange(tgt, state, depth, actions, mid + 1, hi,
                               left.utility, left.equation)
         IN  [nodes |-> left.nodes + right.nodes,
              utility |-> right.utility, equation |-> right.equation]
    ELSE IF LoopBreaks(max_eval)
    THEN [utility |-> max_eval, equation |-> best_equation, nodes |-> 0]
    ELSE LET child == minimax(tgt, apply_action(state, actions[lo]),
                              depth - 1)
         IN  IF Better(child.utility, max_eval)
             THEN child
             ELSE [utility |-> max_eval, equation |-> best_equation,
                   nodes |-> child.nodes]

\* A variant of ContainsTarget that never takes the early exit.
ContainsTargetNever(tgt, nums) == FALSE

\* for &num in numbers { if num == target { return ... } }
ContainsTarget(tgt, nums) == \E k \in 1..Len(nums) : nums[k] = tgt

\* A variant of Accept whose threshold admits a distance of 100.
AcceptInclusive(util, best_equation) ==
    IF util = EXACT_MATCH_UTILITY THEN best_equation
    ELSE IF util >= -100 THEN best_equation
    ELSE None

\* The final decision of MinimaxSolver::solve.
Accept(util, best_equation) ==
    IF util = EXACT_MATCH_UTILITY THEN best_equation
    ELSE IF util > -100 THEN best_equation
    ELSE None

\* MinimaxSolver::with_depth(depth); MinimaxSolver::new() has depth 6.
MinimaxSolver_with_depth(depth) ==
    [nodes_explored |-> 0, target |-> 0, max_depth |-> depth]

\* MinimaxSolver::solve on the instance self: [result, nodes_explored,
\* target, searched, utility]; nodes_explored and target are the fields the
\* call leaves in self, searched tells whether minimax was called, utility
\* is its first result.  The early exit compares with the argument, the
\* search reads self.target.
MinimaxSolver_solve_self(self, tgt, nums) ==
    LET nodes0 == ResetCounter(self.nodes_explored)
        stored == tgt
    IN  IF ContainsTarget(tgt, nums)
        THEN [result |-> Equation_terminate(tgt), nodes_explored |-> nodes0,
              target |-> stored, searched |-> FALSE, utility |-> 0]
        ELSE LET r == minimax(stored,
                              [numbers |-> nums,
                               equations |-> InitialEquations(nums)],
                              self.max_depth)
             IN  [result |-> Accept(r.utility, r.equation),
                  nodes_explored |-> nodes0 + r.nodes,
                  target |-> stored,
                  searched |-> TRUE, utility |-> r.utility]

\* MinimaxSolver::with_depth(depth).solve(tgt, nums)
MinimaxSolver_solve(tgt, nums, depth) ==
    MinimaxSolver_solve_self(MinimaxSolver_with_depth(depth), tgt, nums)

(***************************************************************************)
(* generator.rs.  A Puzzle is [status, numbers, target, large_count,       *)
(* max_numbers]; status tells a returned puzzle ("some") from none yet and *)
(* from a panic.  Every choice of the random number generator is a         *)
(* nondeterministic choice.                                                *)
(***************************************************************************)
LARGE_NUMBERS == <<25, 50, 75, 100>>

SMALL_NUMBERS == <<1, 2, 3, 4, 5, 6, 7, 8, 9, 10>>

\* The targets random_range(101..=999) is taken to draw: the two ends of the
\* range and a value inside it.
TargetDraws == {101, 550, 999}

NoPuzzle == [status |-> "none", numbers |-> << >>, target |-> 0,
             large_count |-> 0, max_numbers |-> 0]

Panicked == [status |-> "panic", numbers |-> << >>, target |-> 0,
             large_count |-> 0, max_numbers |-> 0]

RECURSIVE LargePicks(_, _)
\* What k rounds of the loop over 0..large_count can push, from large_pool:
\* a round removes the chosen number from the pool, and pushes nothing once
\* the pool is empty (choose returns None).
LargePicks(large_pool, k) ==
    IF k = 0 THEN {<< >>}
    ELSE IF Len(large_pool) = 0 THEN LargePicks(large_pool, k - 1)
    ELSE UNION {{<<large_pool[idx]>> \o rest :
                    rest \in LargePicks(RemoveAt(large_pool, idx), k - 1)} :
                idx \in 1..Len(large_pool)}

\* What the loop over 0..small_count can push: any small number each round.
SmallPicks(small_count) == [1..small_count -> Range(SMALL_NUMBERS)]

\* The puzzles generate(large_count, max_numbers) can return; the panic is
\* the only outcome when large_count > max_numbers.
PuzzleGenerator_generate(large_count, max_numbers) ==
    IF large_count > max_numbers THEN {Panicked}
    ELSE {[status |-> "some", numbers |-> larges \o smalls, target |-> t,
           large_count |-> large_count, max_numbers |-> max_numbers] :
            larges \in LargePicks(LARGE_NUMBERS, large_count),
            smalls \in SmallPicks(max_numbers - large_count),
            t \in TargetDraws}

\* Puzzle::is_valid
Puzzle_is_valid(p) ==
    IF Len(p.numbers) # p.max_numbers THEN FALSE
    ELSE IF p.target < 101 \/ p.target > 999 THEN FALSE
    ELSE IF p.large_count > 4 THEN FALSE
    ELSE LET large_numbers ==
                 SelectSeq(p.numbers, LAMBDA n : n \in Range(LARGE_NUMBERS))
             small_numbers ==
                 SelectSeq(p.numbers, LAMBDA n : n \in Range(SMALL_NUMBERS))
         IN  /\ Len(large_numbers) = p.large_count
             /\ Len(small_numbers) = p.max_numbers - p.large_count
             /\ Len(large_numbers) + Len(small_numbers) = p.max_numbers

(***************************************************************************)
(* The state machine.  A run of the solvers: a solver is constructed       *)
(* (BruteForceSolver::new, MinimaxSolver::new or ::with_depth), a puzzle   *)
(* (target, numbers) is handed to solve, and the caller re-evaluates the   *)
(* returned equation (main.rs).  max_depth is a field of MinimaxSolver     *)
(* only; it is 0 and unused when kind is "BruteForce".                     *)
(***************************************************************************)
Unset == [ok |-> FALSE, val |-> 0, err |-> "unset"]

NoSearch == [searched |-> FALSE, utility |-> 0]

Init ==
    /\ kind \in {"BruteForce", "Minimax"}
    /\ max_depth \in (IF kind = "Minimax" THEN Depths ELSE {0})
    /\ target \in Targets
    /\ numbers \in Inputs
    /\ pc = "ready"
    /\ result = None
    /\ permutation_count = 0
    /\ nodes_explored = 0
    /\ utility_found = NoSearch
    /\ value = Unset
    /\ equation = None
    /\ eq_value = Unset
    /\ self_target = 0
    /\ calls = 0
    /\ puzzle = NoPuzzle
    /\ puzzle_valid = "unset"

\* brute_force.solve(puzzle.target, &puzzle.numbers)
BruteForceSolve ==
    /\ pc = "ready"
    /\ kind = "BruteForce"
    /\ LET r == BruteForceSolver_solve(target, numbers)
       IN  /\ result' = r.solution
           /\ permutation_count' = r.count
    /\ pc' = "solved"
    /\ calls' = calls + 1
    /\ UNCHANGED genVars
    /\ UNCHANGED <<kind, max_depth, target, numbers, nodes_explored,
                   utility_found, value, equation, eq_value, self_target>>

\* minimax.solve(puzzle.target, &puzzle.numbers)
MinimaxSolve ==
    /\ pc = "ready"
    /\ kind = "Minimax"
    /\ LET r == MinimaxSolver_solve(target, numbers, max_depth)
       IN  /\ result' = r.result
           /\ nodes_explored' = r.nodes_explored
           /\ utility_found' = [searched |-> r.searched,
                                utility |-> r.utility]
           /\ self_target' = r.target
    /\ pc' = "solved"
    /\ calls' = calls + 1
    /\ UNCHANGED genVars
    /\ UNCHANGED <<kind, max_depth, target, numbers, permutation_count,
                   value, equation, eq_value>>

\* match &result { Some(equation) => match equation.solve() ... }
Verify ==
    /\ pc = "solved"
    /\ result # None
    /\ value' = Equation_solve(result)
    /\ pc' = "verified"
    /\ UNCHANGED genVars
    /\ UNCHANGED <<kind, max_depth, target, numbers, result,
                   permutation_count, nodes_explored, utility_found,
                   equation, eq_value, self_target, calls>>

Next == BruteForceSolve \/ MinimaxSolve \/ Verify

Spec == Init /\ [][Next]_vars

(***************************************************************************)
(* The Equation type on its own: chains built node by node, innermost      *)
(* first, and evaluated.                                                   *)
(***************************************************************************)
InitEq ==
    /\ kind = "BruteForce"
    /\ max_depth = 0
    /\ target = 0
    /\ numbers = << >>
    /\ pc = "equations"
    /\ result = None
    /\ permutation_count = 0
    /\ nodes_explored = 0
    /\ utility_found = NoSearch
    /\ value = Unset
    /\ equation = None
    /\ eq_value = Unset
    /\ self_target = 0
    /\ calls = 0
    /\ puzzle = NoPuzzle
    /\ puzzle_valid = "unset"

\* Equation::terminate(number)
Terminate ==
    /\ pc = "equations"
    /\ \E n \in EqNumbers : equation' = Equation_terminate(n)
    /\ eq_value' = Unset
    /\ UNCHANGED <<solverVars, genVars>>

\* Equation::new(number, Operation::Op(op_type, Box::new(next)))
New ==
    /\ pc = "equations"
    /\ equation # None
    /\ Len(equation) < MaxChain
    /\ \E n \in EqNumbers, op_type \in OpType :
          equation' = Equation_new(n, op_type, equation)
    /\ eq_value' = Unset
    /\ UNCHANGED <<solverVars, genVars>>

\* equation.solve()
Solve ==
    /\ pc = "equations"
    /\ equation # None
    /\ eq_value' = Equation_solve(equation)
    /\ UNCHANGED genVars
    /\ UNCHANGED <<equation, solverVars>>

NextEq == Terminate \/ New \/ Solve

SpecEq == InitEq /\ [][NextEq]_vars

(***************************************************************************)
(* One solver instance used for several puzzles in a row: solve takes      *)
(* &mut self, and every call starts from the fields the call before left   *)
(* in the instance.                                                        *)
(***************************************************************************)
ReuseTargets == {2, 3, 5}
ReuseInputs == SeqsUpTo({1, 2}, 2)

InitReuse ==
    /\ kind \in {"BruteForce", "Minimax"}
    /\ max_depth \in (IF kind = "Minimax" THEN Depths ELSE {0})
    /\ target = 0
    /\ numbers = << >>
    /\ pc = "fresh"
    /\ result = None
    /\ permutation_count = 0
    /\ nodes_explored = 0
    /\ utility_found = NoSearch
    /\ value = Unset
    /\ equation = None
    /\ eq_value = Unset
    /\ self_target = 0
    /\ calls = 0
    /\ puzzle = NoPuzzle
    /\ puzzle_valid = "unset"

\* solver.solve(t, &ns) on the BruteForceSolver the state holds
BruteForceCall ==
    /\ pc \in {"fresh", "called"}
    /\ kind = "BruteForce"
    /\ calls < MaxCalls
    /\ \E t \in ReuseTargets, ns \in ReuseInputs :
          LET r == BruteForceSolver_solve_self(
                       [permutation_count |-> permutation_count], t, ns)
          IN  /\ target' = t
              /\ numbers' = ns
              /\ result' = r.solution
              /\ permutation_count' = r.count
    /\ pc' = "called"
    /\ calls' = calls + 1
    /\ UNCHANGED genVars
    /\ UNCHANGED <<kind, max_depth, nodes_explored, utility_found, value,
                   equation, eq_value, self_target>>

\* solver.solve(t, &ns) on the MinimaxSolver the state holds
MinimaxCall ==
    /\ pc \in {"fresh", "called"}
    /\ kind = "Minimax"
    /\ calls < MaxCalls
    /\ \E t \in ReuseTargets, ns \in ReuseInputs :
          LET r == MinimaxSolver_solve_self(
                       [nodes_explored |-> nodes_explored,
                        target |-> self_target,
                        max_depth |-> max_depth], t, ns)
          IN  /\ target' = t
              /\ numbers' = ns
              /\ result' = r.result
              /\ nodes_explored' = r.nodes_explored
              /\ self_target' = r.target
              /\ utility_found' = [searched |-> r.searched,
                                   utility |-> r.utility]
    /\ pc' = "called"
    /\ calls' = calls + 1
    /\ UNCHANGED genVars
    /\ UNCHANGED <<kind, max_depth, permutation_count, value, equation,
                   eq_value>>

NextReuse == BruteForceCall \/ MinimaxCall

SpecReuse == InitReuse /\ [][NextReuse]_vars

(***************************************************************************)
(* The generator on its own: one puzzle is generated for a pair            *)
(* (large_count, max_numbers) and then validated.                          *)
(***************************************************************************)
GenInputs ==
    {c \in (0..MaxLargeCount) \X (0..MaxGenNumbers) :
        c[2] - c[1] <= MaxSmallCount}

InitGen ==
    /\ kind = "BruteForce"
    /\ max_depth = 0
    /\ target = 0
    /\ numbers = << >>
    /\ pc = "generator"
    /\ result = None
    /\ permutation_count = 0
    /\ nodes_explored = 0
    /\ utility_found = NoSearch
    /\ value = Unset
    /\ equation = None
    /\ eq_value = Unset
    /\ self_target = 0
    /\ calls = 0
    /\ puzzle = NoPuzzle
    /\ puzzle_valid = "unset"

\* generator.generate(large_count, max_numbers)
Generate ==
    /\ pc = "generator"
    /\ \E c \in GenInputs :
          \E p \in PuzzleGenerator_generate(c[1], c[2]) : puzzle' = p
    /\ pc' = IF puzzle'.status = "panic" THEN "panicked" ELSE "generated"
    /\ UNCHANGED <<kind, max_depth, target, numbers, result, permutation_count,
                   nodes_explored, utility_found, value, self_target, calls,
                   equation, eq_value, puzzle_valid>>

\* puzzle.is_valid()
IsValid ==
    /\ pc = "generated"
    /\ puzzle_valid' = (IF Puzzle_is_valid(puzzle) THEN "yes" ELSE "no")
    /\ pc' = "validated"
    /\ UNCHANGED <<kind, max_depth, target, numbers, result, permutation_count,
                   nodes_explored, utility_found, value, self_target, calls,
                   equation, eq_value, puzzle>>

NextGen == Generate \/ IsValid

SpecGen == InitGen /\ [][NextGen]_vars

(***************************************************************************)
(* The search tree of the exhaustive solver, as a set: the invocations     *)
(* try_all_combinations_with_equations would make if it never returned     *)
(* early.  A node is [path, nums, equations]; path is the list of the      *)
(* <<i, j, o>> taken from the root, o the place of the operator among Add, *)
(* Subtract, Multiply, Divide.  The set says which invocations exist and   *)
(* nothing about the order the loops visit them in.                        *)
(***************************************************************************)
OpAt(o) ==
    CASE o = 1 -> "Add" [] o = 2 -> "Subtract"
      [] o = 3 -> "Multiply" [] o = 4 -> "Divide"

\* a + b, a - b, a * b, and a / b behind the test b != 0 && a % b == 0.
OpResult(o, a, b) ==
    CASE o = 1 -> a + b [] o = 2 -> a - b [] o = 3 -> a * b
      [] o = 4 -> Div(a, b)

\* The equation the loop body builds for (i, j, o) at a node.
BFCombined(node, i, j, o) ==
    LET a == node.nums[i]
        b == node.nums[j]
        eq_a == IF a \in DOMAIN node.equations THEN node.equations[a]
                ELSE Equation_terminate(a)
        eq_b == IF b \in DOMAIN node.equations THEN node.equations[b]
                ELSE Equation_terminate(b)
    IN  combined_equation(eq_a, OpAt(o), eq_b)

\* The loop body recurses for (i, j, o): the positions differ, a division
\* is exact, and the equation built evaluates to the result.
BFRecurses(node, i, j, o) ==
    LET a == node.nums[i]
        b == node.nums[j]
        r == Equation_solve(BFCombined(node, i, j, o))
    IN  /\ i # j
        /\ o = 4 => DivisionValid(a, b)
        /\ r.ok /\ r.val = OpResult(o, a, b)

\* The arguments of the recursive call for (i, j, o).
BFChild(node, i, j, o) ==
    LET a == node.nums[i]
        b == node.nums[j]
        res == OpResult(o, a, b)
    IN  [path |-> Append(node.path, <<i, j, o>>),
         nums |-> new_numbers(node.nums, i, j, res),
         equations |-> MapInsert(MapRemove(MapRemove(node.equations, a), b),
                                 res, BFCombined(node, i, j, o))]

BFRoot(nums) ==
    [path |-> << >>, nums |-> nums, equations |-> InitialEquations(nums)]

RECURSIVE BFTree(_)
BFTree(node) ==
    {node} \cup
    (IF Len(node.nums) <= 1 THEN {}
     ELSE UNION {BFTree(BFChild(node, c[1], c[2], c[3])) :
                   c \in {d \in (1..Len(node.nums)) \X (1..Len(node.nums))
                                    \X (1..4) :
                              BFRecurses(node, d[1], d[2], d[3])}})

\* A base-case invocation that returns Some(equation).
BFSuccess(tgt, node) ==
    Len(node.nums) = 1 /\ BaseCase(tgt, node.nums, node.equations) # None

(***************************************************************************)
(* The search tree of the heuristic solver, as a set: a node is [state,    *)
(* depth, steps], the arguments of one invocation of minimax and the       *)
(* number of actions applied from the root to reach it.                    *)
(***************************************************************************)
MMRoot(nums) == [numbers |-> nums, equations |-> InitialEquations(nums)]

\* The invocation recurses: neither terminal nor out of depth.
MMInner(tgt, node) == ~is_terminal(tgt, node.state) /\ node.depth # 0

RECURSIVE MMTree(_, _, _, _)
MMTree(tgt, state, depth, steps) ==
    LET node == [state |-> state, depth |-> depth, steps |-> steps]
        actions == get_actions(state)
    IN  {node} \cup
        (IF MMInner(tgt, node)
         THEN UNION {MMTree(tgt, apply_action(state, actions[k]),
                            depth - 1, steps + 1) : k \in 1..Len(actions)}
         ELSE {})

(***************************************************************************)
(* Reference notions the properties are stated against.  They use plain    *)
(* integer arithmetic and none of the solver's operators.                  *)
(***************************************************************************)
\* The exact quotients a / b: the q with q * b = a, for b # 0.
ExactQuotients(a, b) ==
    IF b = 0 THEN {} ELSE {q \in (-Abs(a))..Abs(a) : q * b = a}

\* The values one operation makes of a and b, in either order.
OneStep(a, b) ==
    {a + b, a - b, b - a, a * b} \cup ExactQuotients(a, b)
                                 \cup ExactQuotients(b, a)

RECURSIVE ReachableValues(_)
\* The values some sequence of pairwise reductions of the whole list ends in.
ReachableValues(nums) ==
    IF Len(nums) = 1 THEN {nums[1]}
    ELSE UNION { UNION { ReachableValues(
                            Append(RemoveAt(RemoveAt(nums, p[2]), p[1]), v)) :
                         v \in OneStep(nums[p[1]], nums[p[2]]) } :
                 p \in {q \in (1..Len(nums)) \X (1..Len(nums)) :
                            q[1] < q[2]} }

\* The reference fold of a chain: the value of node i, from the tail up.
\* A division that fails counts 0 here and makes RefOk false.
RefValues(eq) ==
    LET f[k \in 0..(Len(eq) - 1)] ==
            LET i == Len(eq) - k
                v == eq[i].number
            IN  IF k = 0 THEN v
                ELSE LET r == f[k - 1]
                     IN  CASE eq[i].op = "Add" -> v + r
                           [] eq[i].op = "Subtract" -> v - r
                           [] eq[i].op = "Multiply" -> v * r
                           [] eq[i].op = "Divide" ->
                                IF ExactQuotients(v, r) = {} THEN 0
                                ELSE CHOOSE q \in ExactQuotients(v, r) : TRUE
    IN  [i \in 1..Len(eq) |-> f[Len(eq) - i]]

RefVal(eq) == RefValues(eq)[1]

\* No division of the chain fails.
RefOk(eq) ==
    \A i \in 1..(Len(eq) - 1) :
        eq[i].op = "Divide" =>
            ExactQuotients(eq[i].number, RefValues(eq)[i + 1]) # {}

Solved == pc \in {"solved", "verified"}

\* <<i, j, o>> before <<i2, j2, o2>>: i ascending, then j, then the operator.
StepBefore(x, y) ==
    \/ x[1] < y[1]
    \/ x[1] = y[1] /\ x[2] < y[2]
    \/ x[1] = y[1] /\ x[2] = y[2] /\ x[3] < y[3]

\* Depth-first order of two invocations: an invocation comes before the
\* ones below it, and before the ones below a later step of the same loop.
PathBefore(p, q) ==
    \/ Len(p) < Len(q) /\ SubSeq(q, 1, Len(p)) = p
    \/ \E k \in 1..Len(p) :
          /\ k <= Len(q)
          /\ SubSeq(p, 1, k - 1) = SubSeq(q, 1, k - 1)
          /\ StepBefore(p[k], q[k])

(***************************************************************************)
(* C1  Completeness of the exhaustive solver: if some sequence of pairwise *)
(* reductions of all the numbers ends in the target, BruteForceSolver      *)
(* returns Some equation.                                                  *)
(***************************************************************************)
C1_Complete ==
    (kind = "BruteForce" /\ Solved /\ target \in ReachableValues(numbers))
        => result # None

(***************************************************************************)
(* C2  Soundness of the exhaustive solver: an equation it returns          *)
(* re-evaluates to Ok(target), never to an error or another value.         *)
(***************************************************************************)
C2_Sound ==
    (kind = "BruteForce" /\ pc = "verified") => value = Ok(target)

C2_Witness ==
    /\ kind = "BruteForce"
    /\ pc = "verified"
    /\ Len(numbers) = 3
    /\ Len(result) = 3
    /\ value = Ok(target)

(***************************************************************************)
(* C3  The exhaustive solver returns None when no sequence of pairwise     *)
(* reductions of the whole list ends in the target.                        *)
(***************************************************************************)
C3_NoneWhenUnreachable ==
    (kind = "BruteForce" /\ Solved /\ target \notin ReachableValues(numbers))
        => result = None

C3_Witness ==
    /\ kind = "BruteForce"
    /\ pc = "solved"
    /\ Len(numbers) = 3
    /\ target \notin ReachableValues(numbers)
    /\ result = None
    /\ permutation_count > 1

(***************************************************************************)
(* C4  Lists of one or two numbers: for every target reachable from them   *)
(* (the number itself; one operation on the two numbers, in either order)  *)
(* the exhaustive solver returns an equation that evaluates to the target. *)
(***************************************************************************)
SmallReach(nums) ==
    IF Len(nums) = 1 THEN {nums[1]}
    ELSE IF Len(nums) = 2 THEN OneStep(nums[1], nums[2])
    ELSE {}

C4_SmallInputs ==
    (kind = "BruteForce" /\ Solved /\ target \in SmallReach(numbers))
        => /\ result # None
           /\ pc = "verified" => value = Ok(target)

C4_Witness ==
    /\ kind = "BruteForce"
    /\ pc = "verified"
    /\ Len(numbers) = 2
    /\ numbers[1] = numbers[2]
    /\ target = numbers[1] * numbers[2]
    /\ value = Ok(target)

(***************************************************************************)
(* C5  Two numbers, default depth: for every target one operation makes of *)
(* them the heuristic solver returns an equation that evaluates to it.     *)
(***************************************************************************)
C5_TwoNumbers ==
    (/\ kind = "Minimax" /\ max_depth = DefaultDepth /\ Solved
     /\ Len(numbers) = 2 /\ target \in OneStep(numbers[1], numbers[2]))
        => /\ result # None
           /\ pc = "verified" => value = Ok(target)

C5_Witness ==
    /\ kind = "Minimax"
    /\ max_depth = DefaultDepth
    /\ pc = "verified"
    /\ Len(numbers) = 2
    /\ target = numbers[2] - numbers[1]
    /\ target \notin Range(numbers)
    /\ value = Ok(target)

(***************************************************************************)
(* C6  Acceptance policy of the heuristic solver: Some(e) is returned only *)
(* when the utility found is 1000 or greater than -100, and None in every  *)
(* other case; e evaluates without error to a value within 99 of the       *)
(* target, at the distance the utility states, and to the target itself    *)
(* when the utility is 1000.                                               *)
(***************************************************************************)
Accepted(u) == u = EXACT_MATCH_UTILITY \/ u > -100

C6_Acceptance ==
    (kind = "Minimax" /\ Solved) =>
        /\ utility_found.searched =>
              /\ result # None => Accepted(utility_found.utility)
              /\ ~Accepted(utility_found.utility) => result = None
        /\ pc = "verified" =>
              /\ value.ok
              /\ Abs(target - value.val) <= 99
              /\ utility_found.searched =>
                    IF utility_found.utility = EXACT_MATCH_UTILITY
                    THEN value.val = target
                    ELSE /\ value.val # target
                         /\ utility_found.utility = -Abs(target - value.val)

C6_Witness ==
    /\ kind = "Minimax"
    /\ pc = "verified"
    /\ utility_found.searched
    /\ utility_found.utility = -99
    /\ Abs(target - value.val) = 99

(***************************************************************************)
(* C7  An exact match is returned: whenever the search ends with utility   *)
(* 1000, solve returns Some equation (never None).                         *)
(***************************************************************************)
C7_ExactMatchReturned ==
    (/\ kind = "Minimax" /\ Solved /\ utility_found.searched
     /\ utility_found.utility = EXACT_MATCH_UTILITY)
        => result # None

(***************************************************************************)
(* C8  Early exit: when the target is one of the input numbers, solve      *)
(* returns the terminal equation of the target without searching, and      *)
(* nodes_explored is 0, whatever max_depth is.                             *)
(***************************************************************************)
C8_EarlyExit ==
    (kind = "Minimax" /\ Solved /\ target \in Range(numbers))
        => /\ nodes_explored = 0
           /\ ~utility_found.searched
           /\ result = <<[number |-> target, op |-> "Terminate"]>>

C8_Witness ==
    /\ kind = "Minimax"
    /\ pc = "solved"
    /\ max_depth = 0
    /\ Len(numbers) = 3
    /\ numbers[3] = target
    /\ nodes_explored = 0

(***************************************************************************)
(* C9  Equation::solve is the right-nested fold: a terminal evaluates to   *)
(* its number, and a chain without a failing division evaluates to         *)
(* v op eval(next), next evaluated first.                                  *)
(***************************************************************************)
C9_RightFold ==
    (pc = "equations" /\ eq_value # Unset) =>
        /\ Len(equation) = 1 => eq_value = Ok(equation[1].number)
        /\ RefOk(equation) => eq_value = Ok(RefVal(equation))

C9_Witness ==
    /\ pc = "equations"
    /\ equation = << [number |-> 100, op |-> "Subtract"],
                     [number |-> 50, op |-> "Divide"],
                     [number |-> 2, op |-> "Terminate"] >>
    /\ eq_value = Ok(75)

(***************************************************************************)
(* C10  A Divide node never truncates: with d the value of next, v / next  *)
(* is Err(DivisionByZero) when d = 0, Err(NonIntegerResult) when d # 0     *)
(* does not divide v, and Ok(q) with q * d = v otherwise.                  *)
(***************************************************************************)
C10_ExactDivision ==
    (/\ pc = "equations" /\ eq_value # Unset /\ Len(equation) >= 2
     /\ equation[1].op = "Divide" /\ RefOk(Tail(equation)))
        => LET v == equation[1].number
               d == RefVal(Tail(equation))
           IN  /\ d = 0 => eq_value = Err("DivisionByZero")
               /\ (d # 0 /\ ExactQuotients(v, d) = {})
                     => eq_value = Err("NonIntegerResult")
               /\ (d # 0 /\ ExactQuotients(v, d) # {})
                     => /\ eq_value.ok
                        /\ eq_value.val * d = v

C10_Witness ==
    /\ pc = "equations"
    /\ equation = << [number |-> -3, op |-> "Divide"],
                     [number |-> 2, op |-> "Terminate"] >>
    /\ eq_value = Err("NonIntegerResult")

(***************************************************************************)
(* C11  Error propagation: a chain that holds, at any depth, a Divide node *)
(* whose divisor sub-chain evaluates to 0 evaluates to                     *)
(* Err(DivisionByZero), whatever operators enclose that node.              *)
(***************************************************************************)
\* Node i is a Divide whose divisor, the chain from i + 1 on, evaluates to 0.
DividesByZeroAt(eq, i) ==
    /\ eq[i].op = "Divide"
    /\ RefOk(SubSeq(eq, i + 1, Len(eq)))
    /\ RefVal(SubSeq(eq, i + 1, Len(eq))) = 0

C11_ErrorPropagation ==
    (/\ pc = "equations" /\ eq_value # Unset
     /\ \E i \in 1..(Len(equation) - 1) : DividesByZeroAt(equation, i))
        => eq_value = Err("DivisionByZero")

C11_Witness ==
    /\ pc = "equations"
    /\ equation = << [number |-> 100, op |-> "Add"],
                     [number |-> 25, op |-> "Divide"],
                     [number |-> 0, op |-> "Terminate"] >>
    /\ eq_value = Err("DivisionByZero")

(***************************************************************************)
(* C12  Calls are independent of the solver's history: after any sequence  *)
(* of earlier solve calls on the same instance, solve(target, numbers)     *)
(* returns the result and leaves the counter that a fresh instance with    *)
(* the same max_depth returns and leaves.                                  *)
(***************************************************************************)
C12_HistoryIndependent ==
    pc = "called" =>
        IF kind = "BruteForce"
        THEN LET fresh == BruteForceSolver_solve_self(BruteForceSolver_new,
                                                      target, numbers)
             IN  /\ result = fresh.solution
                 /\ permutation_count = fresh.count
        ELSE LET fresh == MinimaxSolver_solve_self(
                              MinimaxSolver_with_depth(max_depth),
                              target, numbers)
             IN  /\ result = fresh.result
                 /\ nodes_explored = fresh.nodes_explored

C12_Witness ==
    /\ pc = "called"
    /\ calls = MaxCalls
    /\ kind = "Minimax"
    /\ numbers = <<2, 1>>
    /\ target = 3
    /\ nodes_explored = 8
    /\ result # None

(***************************************************************************)
(* C13  Whenever large_count <= max_numbers, the puzzle generate returns   *)
(* has exactly max_numbers numbers, exactly large_count of them from       *)
(* {25, 50, 75, 100} and the rest from 1..10, and a target in 101..999.    *)
(***************************************************************************)
C13_GeneratedShape ==
    (pc \in {"generated", "validated"} /\ puzzle.status = "some") =>
        /\ puzzle.large_count <= puzzle.max_numbers
        /\ Len(puzzle.numbers) = puzzle.max_numbers
        /\ Cardinality({k \in 1..Len(puzzle.numbers) :
                            puzzle.numbers[k] \in {25, 50, 75, 100}})
               = puzzle.large_count
        /\ \A k \in 1..Len(puzzle.numbers) :
               puzzle.numbers[k] \in {25, 50, 75, 100} \cup (1..10)
        /\ puzzle.target \in 101..999

(***************************************************************************)
(* C14  Order of the exhaustive search: depth-first over the ordered pairs *)
(* (i, j), i # j, i ascending and then j ascending, the operators in the   *)
(* order Add, Subtract, Multiply, Divide.  The equation returned is the    *)
(* one of the first successful leaf in that order, and nothing after that  *)
(* leaf is explored: the counter is the number of invocations up to it.    *)
(***************************************************************************)
C14_FirstLeaf ==
    (kind = "BruteForce" /\ Solved) =>
        LET tree == BFTree(BFRoot(numbers))
            wins == {n \in tree : BFSuccess(target, n)}
        IN  IF wins = {}
            THEN result = None /\ permutation_count = Cardinality(tree)
            ELSE LET first == CHOOSE n \in wins :
                                 \A m \in wins \ {n} :
                                    PathBefore(n.path, m.path)
                 IN  /\ result = first.equations[first.nums[1]]
                     /\ permutation_count =
                           Cardinality({n \in tree :
                               \/ n.path = first.path
                               \/ PathBefore(n.path, first.path)})

\* From [1, 2, 2] several leaves end in the target 4, and the search stops
\* at the first of them, before the whole tree is visited.
C14_Witness ==
    /\ kind = "BruteForce"
    /\ Solved
    /\ numbers = <<1, 2, 2>>
    /\ target = 4
    /\ result # None
    /\ permutation_count < Cardinality(BFTree(BFRoot(numbers)))
    /\ Cardinality({n \in BFTree(BFRoot(numbers)) :
                        BFSuccess(target, n)}) > 1

(***************************************************************************)
(* C15  permutation_count is the number of invocations of the recursive    *)
(* search a call makes, base-case invocations included: the invocations of *)
(* the search tree that are not after the leaf the call returns from.  It  *)
(* is at least 1, and exactly 1 for an input of one number or none.        *)
(***************************************************************************)
\* The invocations a call makes: all of the tree, or those up to the
\* successful leaf the equation e was returned from.
BFInvocations(tgt, nums, e) ==
    LET tree == BFTree(BFRoot(nums))
    IN  IF e = None THEN tree
        ELSE {n \in tree :
                ~ \E m \in tree :
                      BFSuccess(tgt, m) /\ PathBefore(m.path, n.path)}

C15_CountsInvocations ==
    (kind = "BruteForce" /\ Solved) =>
        /\ permutation_count >= 1
        /\ Len(numbers) <= 1 => permutation_count = 1
        /\ permutation_count
              = Cardinality(BFInvocations(target, numbers, result))

C15_Witness ==
    /\ kind = "BruteForce"
    /\ Solved
    /\ numbers = <<1, 2, 3>>
    /\ target = 101
    /\ result = None
    /\ permutation_count = Cardinality(BFTree(BFRoot(numbers)))
    /\ permutation_count > 1

(***************************************************************************)
(* C16  Division in the search: both solvers offer (a, b, Divide) only     *)
(* when b # 0 and b divides a exactly, and offer Add, Subtract and         *)
(* Multiply for every ordered pair of distinct positions; so no reduction  *)
(* step divides by zero or truncates.                                      *)
(***************************************************************************)
\* The ordered pairs of distinct positions of a list.
DistinctPositions(nums) ==
    {q \in (1..Len(nums)) \X (1..Len(nums)) : q[1] # q[2]}

\* What is to be offered for the values a and b: the three operations with
\* their results, and the division with its exact quotient when there is one.
Offers(a, b) ==
    {<<"Add", a + b>>, <<"Subtract", a - b>>, <<"Multiply", a * b>>}
        \cup {<<"Divide", q>> : q \in ExactQuotients(a, b)}

\* The loops of the exhaustive solver offer exactly Offers, pair by pair.
BFOffersRight(nums) ==
    LET cands == Candidates(nums)
    IN  /\ \A k \in 1..Len(cands) :
              /\ <<cands[k].i, cands[k].j>> \in DistinctPositions(nums)
              /\ <<cands[k].op_type, cands[k].result>>
                    \in Offers(nums[cands[k].i], nums[cands[k].j])
        /\ \A q \in DistinctPositions(nums) :
              \A f \in Offers(nums[q[1]], nums[q[2]]) :
                 Cardinality({k \in 1..Len(cands) :
                     /\ cands[k].i = q[1] /\ cands[k].j = q[2]
                     /\ cands[k].op_type = f[1]
                     /\ cands[k].result = f[2]}) = 1

\* get_actions offers exactly Offers, pair by pair.
MMOffersRight(state) ==
    LET nums == state.numbers
        actions == get_actions(state)
    IN  /\ \A k \in 1..Len(actions) :
              /\ \E q \in DistinctPositions(nums) :
                    actions[k].a = nums[q[1]] /\ actions[k].b = nums[q[2]]
              /\ <<actions[k].op_type, ActionResult(actions[k])>>
                    \in Offers(actions[k].a, actions[k].b)
        /\ \A q \in DistinctPositions(nums) :
              \A f \in Offers(nums[q[1]], nums[q[2]]) :
                 \E k \in 1..Len(actions) :
                     /\ actions[k].a = nums[q[1]] /\ actions[k].b = nums[q[2]]
                     /\ actions[k].op_type = f[1]
        /\ Len(actions) = Cardinality(
               UNION {{<<q, f>> : f \in Offers(nums[q[1]], nums[q[2]])} :
                        q \in DistinctPositions(nums)})

C16_DivisionLegal ==
    Solved =>
        IF kind = "BruteForce"
        THEN \A n \in BFTree(BFRoot(numbers)) : BFOffersRight(n.nums)
        ELSE utility_found.searched =>
                \A n \in MMTree(target, MMRoot(numbers), max_depth, 0) :
                    MMInner(target, n) => MMOffersRight(n.state)

\* From [2, 0, 1] the heuristic solver offers 2 / 1 and 0 / 2, and neither
\* 1 / 2 nor a division by 0.
C16_Witness ==
    /\ kind = "Minimax"
    /\ Solved
    /\ utility_found.searched
    /\ max_depth > 0
    /\ numbers = <<2, 0, 1>>
    /\ LET actions == get_actions(MMRoot(numbers))
       IN  /\ \E k \in 1..Len(actions) :
                 actions[k] = [a |-> 2, b |-> 1, op_type |-> "Divide"]
           /\ \E k \in 1..Len(actions) :
                 actions[k] = [a |-> 0, b |-> 2, op_type |-> "Divide"]
           /\ \A k \in 1..Len(actions) :
                 actions[k].op_type = "Divide" =>
                    <<actions[k].a, actions[k].b>> \notin {<<1, 2>>, <<2, 0>>,
                                                           <<1, 0>>}

(***************************************************************************)
(* C17  Termination: every reduction step leaves a list exactly one        *)
(* shorter than its parent's, also when the two values are equal, so an    *)
(* invocation reached by s steps holds numbers.len() - s numbers; s never  *)
(* exceeds numbers.len() - 1 in the exhaustive solver, nor                 *)
(* min(max_depth, numbers.len() - 1) in the heuristic one, and the search  *)
(* trees are finite.  (An empty input makes the one root invocation.)      *)
(***************************************************************************)
\* The most steps a search over a list of n numbers can take.
MostSteps(n) == IF n = 0 THEN 0 ELSE n - 1

C17_Shrinks ==
    Solved =>
        IF kind = "BruteForce"
        THEN \A n \in BFTree(BFRoot(numbers)) :
                /\ Len(n.nums) = Len(numbers) - Len(n.path)
                /\ Len(n.path) <= MostSteps(Len(numbers))
        ELSE utility_found.searched =>
                \A n \in MMTree(target, MMRoot(numbers), max_depth, 0) :
                    /\ Len(n.state.numbers) = Len(numbers) - n.steps
                    /\ n.steps <= MostSteps(Len(numbers))
                    /\ n.steps <= max_depth
                    /\ n.steps + n.depth = max_depth

\* Two equal values among three: a search of full depth reaches lists of
\* one number after two steps.
C17_Witness ==
    /\ kind = "Minimax"
    /\ Solved
    /\ utility_found.searched
    /\ numbers = <<2, 2, 1>>
    /\ max_depth = DefaultDepth
    /\ \E n \in MMTree(target, MMRoot(numbers), max_depth, 0) :
          n.steps = 2 /\ Len(n.state.numbers) = 1

(***************************************************************************)
(* C18  Tie-breaking in the heuristic search: a child replaces the best so *)
(* far only when its utility is strictly greater, so an inner node returns *)
(* the greatest utility of its children, with the equation of the first    *)
(* child, in the order of get_actions, that has that utility.              *)
(***************************************************************************)
\* What the children of an inner node return, in the order of get_actions.
ChildResults(tgt, node) ==
    LET actions == get_actions(node.state)
    IN  [k \in 1..Len(actions) |->
            minimax(tgt, apply_action(node.state, actions[k]),
                    node.depth - 1)]

\* The first of the children with the greatest utility.
FirstBest(kids) ==
    CHOOSE k \in DOMAIN kids :
       /\ \A l \in DOMAIN kids : kids[l].utility <= kids[k].utility
       /\ \A l \in 1..(k - 1) : kids[l].utility < kids[k].utility

C18_FirstBestWins ==
    (kind = "Minimax" /\ Solved /\ utility_found.searched) =>
        /\ utility_found.utility
              = minimax(target, MMRoot(numbers), max_depth).utility
        /\ \A n \in MMTree(target, MMRoot(numbers), max_depth, 0) :
              MMInner(target, n) =>
                 LET r == minimax(target, n.state, n.depth)
                     kids == ChildResults(target, n)
                     first == kids[FirstBest(kids)]
                 IN  /\ r.utility = first.utility
                     /\ r.equation = first.equation

\* 1 + 2 and 2 + 1 both reach the target 3: the first one is returned.
C18_Witness ==
    /\ kind = "Minimax"
    /\ Solved
    /\ numbers = <<1, 2>>
    /\ target = 3
    /\ max_depth = 1
    /\ LET kids == ChildResults(target,
                                [state |-> MMRoot(numbers), depth |-> 1])
       IN  kids[1].utility = kids[4].utility /\ FirstBest(kids) = 1
    /\ result = << [number |-> 1, op |-> "Add"],
                   [number |-> 2, op |-> "Terminate"] >>

(***************************************************************************)
(* C19  The heuristic search does not short-circuit: at every node that is *)
(* not terminal and has depth left, minimax recurses into every action of  *)
(* get_actions once, also after an earlier sibling returned the exact      *)
(* match, so the nodes counted for that node are 1 plus the sum of the     *)
(* nodes counted for its children; a node that does not recurse counts 1.  *)
(***************************************************************************)
RECURSIVE SumNodes(_, _)
\* The nodes counted for the first k children.
SumNodes(kids, k) ==
    IF k = 0 THEN 0 ELSE SumNodes(kids, k - 1) + kids[k].nodes

C19_EveryActionSearched ==
    (kind = "Minimax" /\ Solved /\ utility_found.searched) =>
        /\ nodes_explored
              = minimax(target, MMRoot(numbers), max_depth).nodes
        /\ \A n \in MMTree(target, MMRoot(numbers), max_depth, 0) :
              LET kids == ChildResults(target, n)
              IN  minimax(target, n.state, n.depth).nodes
                    = IF MMInner(target, n)
                      THEN 1 + SumNodes(kids, Len(get_actions(n.state)))
                      ELSE 1

\* solve(3, [2, 1]): the first action, 2 + 1, is the exact match, and the
\* six other actions are searched all the same: the root and seven children.
C19_Witness ==
    /\ kind = "Minimax"
    /\ Solved
    /\ numbers = <<2, 1>>
    /\ target = 3
    /\ max_depth = DefaultDepth
    /\ Len(get_actions(MMRoot(numbers))) = 7
    /\ ChildResults(target, [state |-> MMRoot(numbers),
                             depth |-> max_depth])[1].utility
          = EXACT_MATCH_UTILITY
    /\ nodes_explored = 8

(***************************************************************************)
(* C20  Heuristic utility: for every state the heuristic search reaches,   *)
(* the utility is 1000 when some value of the number list equals the       *)
(* target, and otherwise the greatest -(|target - v|) over the values v of *)
(* the list; a state that holds the target is terminal with utility 1000.  *)
(***************************************************************************)
\* The utility the values of a non-empty list call for.
ValueUtility(tgt, nums) ==
    IF \E k \in 1..Len(nums) : nums[k] = tgt THEN 1000
    ELSE CHOOSE u \in {-Abs(tgt - nums[k]) : k \in 1..Len(nums)} :
            \A k \in 1..Len(nums) : -Abs(tgt - nums[k]) <= u

C20_UtilityByValue ==
    (kind = "Minimax" /\ Solved /\ utility_found.searched) =>
        \A n \in MMTree(target, MMRoot(numbers), max_depth, 0) :
            Len(n.state.numbers) >= 1 =>
                /\ utility(target, n.state)
                      = ValueUtility(target, n.state.numbers)
                /\ (\E k \in 1..Len(n.state.numbers) :
                        n.state.numbers[k] = target)
                      => is_terminal(target, n.state)

(***************************************************************************)
(* C21  The expression map of the heuristic search: in every state the     *)
(* search reaches, every key of the map is a value of the number list, and *)
(* the expression stored under a key evaluates, without error, to that     *)
(* key.  (One expression per value is what a map is.)                      *)
(***************************************************************************)
C21_MapInvariant ==
    (kind = "Minimax" /\ Solved /\ utility_found.searched) =>
        \A n \in MMTree(target, MMRoot(numbers), max_depth, 0) :
            \A key \in DOMAIN n.state.equations :
                /\ \E k \in 1..Len(n.state.numbers) :
                       n.state.numbers[k] = key
                /\ RefOk(n.state.equations[key])
                /\ RefVal(n.state.equations[key]) = key

(***************************************************************************)
(* C22  Every equation the exhaustive solver returns uses every input      *)
(* number exactly once: the numbers of the chain are the input numbers,    *)
(* each as often as it occurs in the input, so the chain has               *)
(* numbers.len() - 1 operators.                                            *)
(***************************************************************************)
\* The numbers of the nodes of a chain, head first.
ChainNumbers(eq) == [k \in 1..Len(eq) |-> eq[k].number]

\* How often x occurs in the list s.
Occurrences(s, x) == Cardinality({k \in 1..Len(s) : s[k] = x})

C22_EveryNumberOnce ==
    (kind = "BruteForce" /\ Solved /\ result # None) =>
        /\ Len(result) = Len(numbers)
        /\ \A x \in Range(ChainNumbers(result)) \cup Range(numbers) :
               Occurrences(ChainNumbers(result), x) = Occurrences(numbers, x)

(***************************************************************************)
(* C23  Every equation the heuristic solver returns is built from the      *)
(* input numbers only, none used more often than it occurs in the input.   *)
(***************************************************************************)
C23_NoNumberReused ==
    (kind = "Minimax" /\ Solved /\ result # None) =>
        \A x \in Range(ChainNumbers(result)) :
            Occurrences(ChainNumbers(result), x) <= Occurrences(numbers, x)

====
